---- MODULE Spec2Model ----
(***************************************************************************)
(* Model of data_import.py: the CSV -> MySQL batch loader.                 *)
(*                                                                         *)
(* Two specifications share the module:                                    *)
(*   Spec           one run of the script (entry point or import_data()),  *)
(*                  with the storage and the file system as environment;   *)
(*   SpecTransform  the per-row derivation of quantity and price, over all *)
(*                  field texts of QuantityTexts x PriceTexts.             *)
(*                                                                         *)
(* Numbers of the CSV are kept in thousandths (2.55 is 2550, 0.01 is 10),  *)
(* together with the three non-finite floats Python's float() produces.    *)
(* Of the eight columns of a record only quantity and price are carried:   *)
(* the other six are derived by total functions (clean_value, parse_date   *)
(* with its catch-all) and take no part in the control flow.               *)
(***************************************************************************)
EXTENDS Integers, Sequences, FiniteSets

VARIABLES
    pc,           \* position of the run
    entry,        \* "main": run as a script; "import_data": the procedure called directly
    fileAtStart,  \* the CSV file existed when the run began (input, never changes)
    fileExists,   \* the CSV file exists now
    connOpened,   \* mysql.connector.connect has returned a connection
    BATCH_SIZE,   \* the module constant BATCH_SIZE (1000 in the source)
    rowsRead,     \* number of rows the DictReader has yielded
    batch,        \* the list `batch`
    row_count,    \* the counter `row_count`
    error_count,  \* the counter `error_count`
    preRows,      \* rows of raw_transactions before the run
    table,        \* records this run has inserted and committed, in order
    flushes,      \* history: every executemany/commit attempt, [ids, ok, final]
    errRows,      \* history: ids of the rows whose iteration ran the except branch
    summary,      \* the printed summary: [printed, imported, errors]
    total,        \* the COUNT(*) printed by the verification, -1 before
    outcome,      \* terminal outcome of the run
    exitStatus,   \* process exit status, -1 while running
    tRow,         \* SpecTransform: the raw row
    tOut,         \* SpecTransform: the record derived from it
    tDone         \* SpecTransform: the row has been transformed

runVars == <<pc, entry, fileAtStart, fileExists, connOpened, BATCH_SIZE, rowsRead,
             batch, row_count, error_count, preRows, table, flushes, errRows,
             summary, total, outcome, exitStatus>>
tVars == <<tRow, tOut, tDone>>
vars == <<runVars, tVars>>

----------------------------------------------------------------------------
(* Bounds *)
MaxRows == 5      \* longest CSV file explored
MaxBatch == 3     \* largest BATCH_SIZE explored
MaxPre == 1       \* most rows already in the table

----------------------------------------------------------------------------
(* Field texts and Python values *)

Txt(k, v) == [kind |-> k, val |-> v]

\* What row.get(column) can find: the column absent from the header ("missing"),
\* a short row (DictReader's restval None, "none"), or the text of the field.
Missing == Txt("missing", 0)
PyNone == Txt("none", 0)
Empty == Txt("empty", 0)
Garbage == Txt("text", 0)          \* non-numeric text such as "abc"
NanText == Txt("nantext", 0)       \* "nan"
InfText == Txt("inftext", 0)       \* "inf", or a literal that overflows ("1e400")
NegInfText == Txt("neginftext", 0) \* "-inf"
Num(v) == Txt("numtext", v)        \* decimal text, v in thousandths

IntZero == Txt("int", 0)           \* the Python int 0

QuantityNumbers == {-2700, -1000, -500, 0, 400, 2700, 6000}
PriceNumbers == {-5000, 0, 1, 9, 10, 2550}
NonNumbers == {Missing, PyNone, Empty, Garbage, NanText, InfText, NegInfText}
QuantityTexts == NonNumbers \cup {Num(v) : v \in QuantityNumbers}
PriceTexts == NonNumbers \cup {Num(v) : v \in PriceNumbers}
Rows == [Quantity : QuantityTexts, Price : PriceTexts]

\* row.get(key, default)
RowGet(field, default) == IF field.kind = "missing" THEN default ELSE field

\* x or 0 : None, '' and the int 0 are falsy, every other string is truthy
OrZero(x) == IF x.kind \in {"none", "empty", "int"} THEN IntZero ELSE x

\* float(x): the float, or "raise" for the ValueError
PyFloat(x) ==
    CASE x.kind = "int" -> Txt("num", x.val * 1000)
      [] x.kind = "numtext" -> Txt("num", x.val)
      [] x.kind = "nantext" -> Txt("nan", 0)
      [] x.kind = "inftext" -> Txt("inf", 0)
      [] x.kind = "neginftext" -> Txt("ninf", 0)
      [] OTHER -> Txt("raise", 0)

TruncFloor(v) == v \div 1000
\* int(f) of a finite float: truncation toward zero
TruncToZero(v) == IF v >= 0 THEN v \div 1000 ELSE -((-v) \div 1000)

\* int(f): ValueError for nan, OverflowError for the infinities
PyInt(f) ==
    IF f.kind = "num" THEN [raised |-> FALSE, val |-> TruncToZero(f.val)]
    ELSE [raised |-> TRUE, val |-> 0]

\* lines 87-90
Quantity(row) ==
    LET r == PyInt(PyFloat(OrZero(RowGet(row.Quantity, IntZero))))
    IN  IF r.raised THEN 1 ELSE r.val

\* price <= 0 on a float: false for nan
LeZero(f) ==
    CASE f.kind = "num" -> f.val <= 0
      [] f.kind = "ninf" -> TRUE
      [] OTHER -> FALSE

DefaultPrice == Txt("num", 10)     \* 0.01

\* lines 98-103
Price(row) ==
    LET f == PyFloat(OrZero(RowGet(row.Price, IntZero)))
    IN  IF f.kind = "raise" THEN DefaultPrice
        ELSE IF LeZero(f) THEN DefaultPrice
        ELSE f

\* lines 82-127: the tuple appended to the batch (id is the row's position in the file)
Transform(id, row) == [id |-> id, quantity |-> Quantity(row), price |-> Price(row)]

NoRecord == [id |-> 0, quantity |-> 0, price |-> Txt("num", 0)]
NoRow == [Quantity |-> Missing, Price |-> Missing]

----------------------------------------------------------------------------
(* SpecTransform *)

TInit ==
    /\ tRow \in Rows
    /\ tOut = NoRecord
    /\ tDone = FALSE

TransformRow ==
    /\ ~tDone
    /\ tOut' = Transform(1, tRow)
    /\ tDone' = TRUE
    /\ UNCHANGED <<tRow, runVars>>

----------------------------------------------------------------------------
(* Spec: one run *)

\* The rows a CSV file of the run is made of
SampleRows == {[Quantity |-> Num(6000), Price |-> Num(2550)],
               [Quantity |-> Empty, Price |-> NanText]}

\* Outcomes of one flush (cursor.executemany, then conn.commit). The multi-row
\* INSERT is one statement, so a failed executemany leaves nothing in the
\* transaction; a failed COMMIT leaves the transaction rolled back.
StorageOutcomes == {"ok", "insert_error", "commit_error"}

Ids(s) == {s[i].id : i \in 1..Len(s)}
IdSeq(s) == [i \in 1..Len(s) |-> s[i].id]

\* cursor.executemany(insert_query, b): the rows pending in the transaction
Executemany(b, st) == IF st = "insert_error" THEN <<>> ELSE b

\* conn.commit(): the table after it
Commit(tbl, pending, st) == IF st = "ok" THEN tbl \o pending ELSE tbl

\* the table after executemany + commit of b
Flushed(tbl, b, st) == Commit(tbl, Executemany(b, st), st)

BatchFullGt(b, size) == Len(b) > size
\* line 130: len(batch) >= BATCH_SIZE
BatchFull(b, size) == Len(b) >= size

CountedBySize(rc, b, size) == rc + size
\* lines 133 and 147: row_count += len(batch)
Counted(rc, b, size) == rc + Len(b)

ExistsAlways(f) == TRUE
\* line 181: os.path.exists(CSV_FILE)
Exists(f) == f

Exit(o, status) ==
    /\ pc' = "exit"
    /\ outcome' = o
    /\ exitStatus' = status

NoSummary == [printed |-> FALSE, imported |-> 0, errors |-> 0]

Init ==
    /\ entry \in {"main", "import_data"}
    /\ pc = entry
    /\ fileAtStart \in BOOLEAN
    /\ fileExists = fileAtStart
    /\ connOpened = FALSE
    /\ BATCH_SIZE \in 1..MaxBatch
    /\ rowsRead = 0
    /\ batch = <<>>
    /\ row_count = 0
    /\ error_count = 0
    /\ preRows \in 0..MaxPre
    /\ table = <<>>
    /\ flushes = <<>>
    /\ errRows = {}
    /\ summary = NoSummary
    /\ total = -1
    /\ outcome = "none"
    /\ exitStatus = -1
    /\ tRow = NoRow
    /\ tOut = NoRecord
    /\ tDone = FALSE

loopVars == <<rowsRead, batch, row_count, error_count, table, flushes, errRows>>

\* lines 179-184
MainCheckFile ==
    /\ pc = "main"
    /\ IF ~Exists(fileExists)
       THEN Exit("file_missing", 1)
       ELSE /\ pc' = "confirm"
            /\ UNCHANGED <<outcome, exitStatus>>
    /\ UNCHANGED <<entry, fileAtStart, fileExists, connOpened, BATCH_SIZE, preRows,
                   loopVars, summary, total, tVars>>

\* the file is removed while the prompt of line 187 waits
FileVanishes ==
    /\ pc = "confirm"
    /\ fileExists
    /\ fileExists' = FALSE
    /\ UNCHANGED <<pc, entry, fileAtStart, connOpened, BATCH_SIZE, preRows,
                   loopVars, summary, total, outcome, exitStatus, tVars>>

\* lines 186-192
Confirm ==
    /\ pc = "confirm"
    /\ \E response \in {"y", "n"} :
          IF response # "y"
          THEN Exit("cancelled", 0)
          ELSE /\ pc' = "import_data"
               /\ UNCHANGED <<outcome, exitStatus>>
    /\ UNCHANGED <<entry, fileAtStart, fileExists, connOpened, BATCH_SIZE, preRows,
                   loopVars, summary, total, tVars>>

\* lines 56-61, and 161-163 when the connection fails
Connect ==
    /\ pc = "import_data"
    /\ \E ok \in BOOLEAN :
          IF ok
          THEN /\ connOpened' = TRUE
               /\ pc' = "open"
               /\ UNCHANGED <<outcome, exitStatus>>
          ELSE /\ Exit("db_error", 1)
               /\ UNCHANGED connOpened
    /\ UNCHANGED <<entry, fileAtStart, fileExists, BATCH_SIZE, preRows,
                   loopVars, summary, total, tVars>>

\* lines 63-77, and 164-167 when the file is absent
OpenCsv ==
    /\ pc = "open"
    /\ IF fileExists
       THEN /\ pc' = "loop"
            /\ batch' = <<>>
            /\ row_count' = 0
            /\ error_count' = 0
            /\ UNCHANGED <<outcome, exitStatus>>
       ELSE /\ Exit("file_missing", 1)
            /\ UNCHANGED <<batch, row_count, error_count>>
    /\ UNCHANGED <<entry, fileAtStart, fileExists, connOpened, BATCH_SIZE, preRows,
                   rowsRead, table, flushes, errRows, summary, total, tVars>>

\* lines 137-141: the except branch of the row loop
RowError(id, b) ==
    /\ error_count' = error_count + 1
    /\ errRows' = errRows \cup {id}
    /\ batch' = b
    /\ UNCHANGED <<row_count, table>>

\* lines 79-141: one iteration of the row loop. `raises` is an exception out of
\* the transformation (lines 82-115), `st` the outcome of the flush if one is due.
ProcessRow ==
    /\ pc = "loop"
    /\ rowsRead < MaxRows
    /\ \E row \in SampleRows, raises \in BOOLEAN, st \in StorageOutcomes :
          LET id == rowsRead + 1
              b1 == Append(batch, Transform(id, row))
          IN  /\ rowsRead' = id
              /\ IF raises
                 THEN /\ RowError(id, batch)
                      /\ UNCHANGED flushes
                 ELSE IF BatchFull(b1, BATCH_SIZE)
                 THEN /\ flushes' = Append(flushes,
                             [ids |-> IdSeq(b1), ok |-> st = "ok", final |-> FALSE])
                      /\ IF st = "ok"
                         THEN /\ table' = Flushed(table, b1, st)
                              /\ row_count' = Counted(row_count, b1, BATCH_SIZE)
                              /\ batch' = <<>>
                              /\ UNCHANGED <<error_count, errRows>>
                         ELSE \* mysql.connector.Error is an Exception: line 137 catches it
                              RowError(id, b1)
                 ELSE /\ batch' = b1
                      /\ UNCHANGED <<row_count, error_count, errRows, table, flushes>>
    /\ UNCHANGED <<pc, entry, fileAtStart, fileExists, connOpened, BATCH_SIZE, preRows,
                   summary, total, outcome, exitStatus, tVars>>

\* line 79: the reader raises csv.Error outside the try of line 80; lines 168-170
ReaderError ==
    /\ pc = "loop"
    /\ Exit("unexpected", 1)
    /\ UNCHANGED <<entry, fileAtStart, fileExists, connOpened, BATCH_SIZE, preRows,
                   loopVars, summary, total, tVars>>

\* lines 143-151: end of file, the remaining batch and the summary;
\* lines 161-163 when the flush fails
FinalFlush ==
    /\ pc = "loop"
    /\ IF batch # <<>>
       THEN \E st \in StorageOutcomes :
              /\ flushes' = Append(flushes,
                     [ids |-> IdSeq(batch), ok |-> st = "ok", final |-> TRUE])
              /\ table' = Flushed(table, batch, st)
              /\ IF st = "ok"
                 THEN /\ row_count' = Counted(row_count, batch, BATCH_SIZE)
                      /\ summary' = [printed |-> TRUE, imported |-> row_count',
                                     errors |-> error_count]
                      /\ pc' = "verify"
                      /\ UNCHANGED <<outcome, exitStatus>>
                 ELSE /\ Exit("db_error", 1)
                      /\ UNCHANGED <<row_count, summary>>
       ELSE /\ summary' = [printed |-> TRUE, imported |-> row_count,
                           errors |-> error_count]
            /\ pc' = "verify"
            /\ UNCHANGED <<row_count, table, flushes, outcome, exitStatus>>
    /\ UNCHANGED <<entry, fileAtStart, fileExists, connOpened, BATCH_SIZE, preRows,
                   rowsRead, batch, error_count, errRows, total, tVars>>

\* lines 153-159 and 194-196; lines 161-163 when the count query fails
Verify ==
    /\ pc = "verify"
    /\ \E ok \in BOOLEAN :
          IF ok
          THEN /\ total' = preRows + Len(table)
               /\ Exit("success", 0)
          ELSE /\ Exit("db_error", 1)
               /\ UNCHANGED total
    /\ UNCHANGED <<entry, fileAtStart, fileExists, connOpened, BATCH_SIZE, preRows,
                   loopVars, summary, tVars>>

Next ==
    \/ MainCheckFile
    \/ FileVanishes
    \/ Confirm
    \/ Connect
    \/ OpenCsv
    \/ ProcessRow
    \/ ReaderError
    \/ FinalFlush
    \/ Verify

Spec == Init /\ [][Next]_vars

TInitAll ==
    /\ TInit
    /\ pc = "transform"
    /\ entry = "import_data"
    /\ fileAtStart = TRUE
    /\ fileExists = TRUE
    /\ connOpened = FALSE
    /\ BATCH_SIZE = 1
    /\ rowsRead = 0
    /\ batch = <<>>
    /\ row_count = 0
    /\ error_count = 0
    /\ preRows = 0
    /\ table = <<>>
    /\ flushes = <<>>
    /\ errRows = {}
    /\ summary = NoSummary
    /\ total = -1
    /\ outcome = "none"
    /\ exitStatus = -1

NextTransform == TransformRow

SpecTransform == TInitAll /\ [][NextTransform]_vars

----------------------------------------------------------------------------
(* Properties *)

Failed(i) == ~flushes[i].ok
SomeFlushFailed == \E i \in DOMAIN flushes : Failed(i)
FlushIds(i) == {flushes[i].ids[j] : j \in DOMAIN flushes[i].ids}

\* C1: a storage error raised by any flush, in the row loop or the final one,
\* is fatal: once a flush has failed the run has ended with the database-error
\* outcome and exit status 1, the failed flush is the last thing the run did
\* (no later row, no later flush), and its records are not in the table.
C1_FlushErrorFatal ==
    \A i \in DOMAIN flushes :
        Failed(i) =>
            /\ pc = "exit"
            /\ outcome = "db_error"
            /\ exitStatus = 1
            /\ i = Len(flushes)
            /\ \A id \in FlushIds(i) : id \notin Ids(table)

\* C2: a row counted as an error contributes no record, neither to the batch
\* that later flushes will carry nor to the table; a row not counted as an
\* error contributes exactly one record.
C2_ErrorRowNotStored ==
    /\ \A id \in errRows : id \notin Ids(batch) /\ id \notin Ids(table)
    /\ pc = "loop" =>
          \A id \in (1..rowsRead) \ errRows :
              Cardinality({j \in DOMAIN batch : batch[j].id = id}) +
              Cardinality({j \in DOMAIN table : table[j].id = id}) = 1

CeilDiv(n, b) == (n + b - 1) \div b

\* C3: in a run that printed its summary with no row error and no storage
\* error, N rows and batch size B give exactly ceil(N/B) flushes, all
\* non-empty, carrying rows 1..N in input order, B records each except the
\* last, which carries N mod B when B does not divide N.
C3_FlushCount ==
    (summary.printed /\ error_count = 0) =>
        /\ Len(flushes) = CeilDiv(rowsRead, BATCH_SIZE)
        /\ \A i \in DOMAIN flushes :
              /\ flushes[i].ok
              /\ Len(flushes[i].ids) >= 1
              /\ i < Len(flushes) => Len(flushes[i].ids) = BATCH_SIZE
              /\ i = Len(flushes) =>
                    Len(flushes[i].ids) =
                        IF rowsRead % BATCH_SIZE = 0 THEN BATCH_SIZE
                        ELSE rowsRead % BATCH_SIZE
              /\ \A j \in DOMAIN flushes[i].ids :
                    flushes[i].ids[j] = (i - 1) * BATCH_SIZE + j
        /\ IdSeq(table) = [k \in 1..rowsRead |-> k]

C3_Witness ==
    /\ summary.printed
    /\ error_count = 0
    /\ BATCH_SIZE = 2
    /\ rowsRead = 5
    /\ Len(flushes) = 3
    /\ Len(flushes[3].ids) = 1

\* C4: whatever the Price and Quantity texts, the record's price is strictly
\* positive and at least 0.01: the parsed value when that is > 0, else 0.01.
C4_PricePositive ==
    tDone =>
        \/ tOut.price.kind = "num" /\ tOut.price.val >= 10
        \/ tOut.price.kind = "inf"

\* q is v (in thousandths) truncated toward zero
IsTruncation(q, v) ==
    IF v >= 0 THEN q >= 0 /\ q * 1000 <= v /\ v < (q + 1) * 1000
    ELSE q <= 0 /\ q * 1000 >= v /\ v > (q - 1) * 1000

\* C5 (as amended): the quantity is the field truncated toward zero when it is
\* a finite number, 0 when the column is missing or the field is empty or
\* None, and 1 for non-numeric text and for nan and the infinities.
C5_Quantity ==
    tDone =>
        LET k == tRow.Quantity.kind
        IN  /\ k = "numtext" => IsTruncation(tOut.quantity, tRow.Quantity.val)
            /\ k \in {"missing", "none", "empty"} => tOut.quantity = 0
            /\ k \in {"text", "nantext", "inftext", "neginftext"} => tOut.quantity = 1

C5_Witness ==
    /\ tDone
    /\ tRow.Quantity = Empty
    /\ tOut.quantity = 0

\* C5 (original): the quantity is the field truncated toward zero whenever it
\* parses and 1 otherwise, a missing column and an empty string included.
C5_QuantityOriginal ==
    tDone =>
        LET k == tRow.Quantity.kind
        IN  /\ k = "numtext" => IsTruncation(tOut.quantity, tRow.Quantity.val)
            /\ k # "numtext" => tOut.quantity = 1

\* C6: no retries: no record is submitted to storage in two insert operations.
C6_NoRetry ==
    \A i, j \in DOMAIN flushes : i # j => FlushIds(i) \cap FlushIds(j) = {}

\* C7 (as amended): a run started at the script entry point with the CSV file
\* missing ends in the input-file-missing outcome with exit status 1 and never
\* opens a storage connection. A run that finds the file absent only when
\* import_data opens it has tried to connect first: it ends with exit status 1,
\* in the input-file-missing outcome with the connection opened, or in the
\* database-error outcome when the connection failed.
C7_MissingFile ==
    /\ (entry = "main" /\ ~fileAtStart) =>
          /\ ~connOpened
          /\ pc \in {"main", "exit"}
          /\ pc = "exit" => outcome = "file_missing" /\ exitStatus = 1
    /\ (pc = "exit" /\ ~fileExists /\ outcome # "cancelled"
          /\ (entry = "import_data" \/ fileAtStart)) =>
          /\ exitStatus = 1
          /\ \/ outcome = "file_missing" /\ connOpened
             \/ outcome = "db_error" /\ ~connOpened

C7_Witness ==
    /\ entry = "main"
    /\ ~fileAtStart
    /\ pc = "exit"
    /\ outcome = "file_missing"
    /\ ~connOpened

\* C7 (original): a run that ends in the input-file-missing outcome, reached
\* from the entry point's check or from import_data's own file-not-found
\* handler, has a non-zero exit status and has never opened a storage connection.
C7_MissingFileOriginal ==
    (pc = "exit" /\ outcome = "file_missing") =>
        /\ exitStatus # 0
        /\ ~connOpened

\* C8: the cumulative row count equals the number of records the run has
\* inserted and committed; the summary's figure is that number and the final
\* stored count is the count before the run plus the rows imported.
C8_RowCount ==
    /\ row_count = Len(table)
    /\ summary.printed => summary.imported = Len(table)
    /\ total # -1 => total = preRows + summary.imported

C8_Witness ==
    /\ outcome = "success"
    /\ SomeFlushFailed
    /\ preRows = 1
    /\ row_count = 3
    /\ total = 4

\* C9: at the summary every row read is accounted for exactly once:
\* rows imported + errors encountered = rows read.
C9_Accounting ==
    summary.printed => summary.imported + summary.errors = rowsRead

\* C10: the batch never holds more than BATCH_SIZE records, holds fewer than
\* BATCH_SIZE at the start of every row iteration, and is empty after a flush
\* of the row loop that completed.
C10_BatchBounded ==
    /\ Len(batch) <= BATCH_SIZE
    /\ pc = "loop" => Len(batch) < BATCH_SIZE
    /\ (pc = "loop" /\ flushes # <<>> /\ flushes[Len(flushes)].ok
          /\ rowsRead \in FlushIds(Len(flushes))) => batch = <<>>

====
